---- MODULE Spec2Model ----
(***************************************************************************)
(* gLabels-qt: the label document model (LabelModel, src/app/LabelModel.cpp)*)
(* as a state machine.  One action per public method of LabelModel; the    *)
(* LabelModelObject methods it calls (select, unselect, getExtent,         *)
(* setPositionRelative, rotate, ...) are not part of the sources at hand   *)
(* and are modelled from the specification's data model.                   *)
(***************************************************************************)
EXTENDS Integers, Sequences, FiniteSets, TLC

VARIABLES
    mObjectList,   \* LabelModel::mObjectList, the stacking order (front = last)
    selected,      \* LabelModelObject selected flag, per constructed object
    extent,        \* LabelModelObject::getExtent(), per constructed object
    conn,          \* number of connect()ions object -> model, per object
    mModified,     \* LabelModel::mModified
    lastOp,        \* the LabelModel method called last, and its arguments
    selectedList,  \* what getSelection() handed to the method called last
    emitted,       \* the signals emitted by the method called last, in order
    calls,         \* the opaque object methods invoked by the method called last
    ret,           \* the value returned by the method called last
    merge,         \* the active merge source: its keys and its records
    db,            \* Db's static data: the registry lists
    found          \* what the Db lookup called last handed back

vars == <<mObjectList, selected, extent, conn, mModified,
          lastOp, selectedList, emitted, calls, ret, merge, db, found>>

-----------------------------------------------------------------------------
(* Bounds                                                                  *)

\* Spec: objects the callers have constructed; the stacking order is let
\* grow to as many entries
MaxObjects == 2
\* SpecCall: objects the callers have constructed, and longest stacking order
CallObjects == 3
\* SpecScene: objects on the label
SceneObjects == 3
\* SpecMerge: longest list of field keys handed to a merge source
MaxKeys == 3
\* SpecMerge: records of a merge source that has any
MaxRecords == 2
\* SpecDb: most entries registered, over the four registry lists
MaxRegistered == 3

\* the null pointer
NULL == 0
\* "very large value" the alignment loops start from: 7200pt = 100in
LargeValue == 7200

-----------------------------------------------------------------------------
(* Values                                                                  *)

\* the objects that exist (constructed by the callers of LabelModel)
Obj == DOMAIN extent

Range(s) == { s[i] : i \in 1..Len(s) }

Min2(a, b) == IF a < b THEN a ELSE b
Max2(a, b) == IF a > b THEN a ELSE b
Abs(a) == IF a < 0 THEN -a ELSE a

\* QList::removeOne: removes the first occurrence, if any
RECURSIVE RemoveOne(_, _)
RemoveOne(list, o) ==
    IF list = <<>> THEN <<>>
    ELSE IF Head(list) = o THEN Tail(list)
    ELSE <<Head(list)>> \o RemoveOne(Tail(list), o)

\* number of occurrences of o in list
RECURSIVE Count(_, _)
Count(list, o) ==
    IF list = <<>> THEN 0
    ELSE (IF Head(list) = o THEN 1 ELSE 0) + Count(Tail(list), o)

\* subsequence of list of the elements in set S, order kept
Restrict(list, S) == SelectSeq(list, LAMBDA o : o \in S)

\* the lists an indeterminate QList may turn out to be, as far as the model
\* follows them: empty, or a single pointer to some object
Indeterminate(S) == {<<>>} \cup { <<o>> : o \in S }

NoDuplicates(list) == \A i, j \in 1..Len(list) : list[i] = list[j] => i = j

\* LabelRegion: two corners, not necessarily normalized
Region(x1, y1, x2, y2) == [x1 |-> x1, y1 |-> y1, x2 |-> x2, y2 |-> y2]

\* a signal as an observer receives it: its name, its argument, and the
\* stacking order the observer finds when its slot runs
Signal(name, o, list) == [sig |-> name, obj |-> o, list |-> list]

\* an opaque call on an object: method name, receiver, argument
Call(method, o, arg) == [method |-> method, obj |-> o, arg |-> arg]

\* a call of a LabelModel method: its name, its object argument, its other
\* arguments, and (for a getSelection that comes right after a deleteObject)
\* that call
NoOp == [name |-> "none", obj |-> NULL, args |-> <<>>, after |-> <<"none", NULL, <<>>>>]
Op(name, o, args) ==
    [name |-> name, obj |-> o, args |-> args, after |-> <<"none", NULL, <<>>>>]

NoRet == [list |-> <<>>, obj |-> NULL, bool |-> FALSE]

-----------------------------------------------------------------------------
(* LabelModelObject, as LabelModel uses it.  The working state of one call *)
(* is a record m: list, sel, ext, conn, mod, em (signals emitted so far),  *)
(* calls (opaque object calls so far).                                     *)

Cur == [list |-> mObjectList, sel |-> selected, ext |-> extent, conn |-> conn,
        mod |-> mModified, em |-> <<>>, calls |-> <<>>]

\* variants of LabelModelObject and what each supports
Variant(o) ==
    CASE o % 4 = 1 -> "Text"
      [] o % 4 = 2 -> "Box"
      [] o % 4 = 3 -> "Line"
      [] OTHER     -> "Image"

canText(o)      == Variant(o) = "Text"
canFill(o)      == Variant(o) = "Box"
canLineColor(o) == Variant(o) \in {"Box", "Line"}
canLineWidth(o) == Variant(o) \in {"Box", "Line"}

isSelected(m, o) == m.sel[o]
select(m, o)     == [m EXCEPT !.sel[o] = TRUE]
unselect(m, o)   == [m EXCEPT !.sel[o] = FALSE]
getExtent(m, o)  == m.ext[o]

\* twice the center of an extent along each axis: (x1 + x2) / 2.0 is kept
\* exact by comparing numerators
CenterX2(r) == r.x1 + r.x2
CenterY2(r) == r.y1 + r.y2

\* LabelModel::onObjectChanged, the slot behind an object's changed()
onObjectChanged(m, o) ==
    [m EXCEPT !.mod = TRUE,
              !.em = @ \o <<Signal("objectChanged", o, m.list),
                            Signal("changed", NULL, m.list)>>]

\* LabelModel::onObjectMoved, the slot behind an object's moved()
onObjectMoved(m, o) ==
    [m EXCEPT !.mod = TRUE,
              !.em = @ \o <<Signal("objectMoved", o, m.list),
                            Signal("changed", NULL, m.list)>>]

\* an object's moved() reaches the model once per live connection
RECURSIVE EmitMoved(_, _, _)
EmitMoved(m, o, n) == IF n <= 0 THEN m ELSE EmitMoved(onObjectMoved(m, o), o, n - 1)

\* an object's changed() reaches the model once per live connection
RECURSIVE EmitChanged(_, _, _)
EmitChanged(m, o, n) == IF n <= 0 THEN m ELSE EmitChanged(onObjectChanged(m, o), o, n - 1)

\* LabelModelObject::setPositionRelative: translates the object, hence its
\* extent, and announces moved() when the object did move
setPositionRelative(m, o, dx, dy) ==
    LET r  == m.ext[o]
        m1 == [m EXCEPT !.ext[o] = Region(r.x1 + dx, r.y1 + dy, r.x2 + dx, r.y2 + dy)]
    IN  IF dx = 0 /\ dy = 0 THEN m ELSE EmitMoved(m1, o, m.conn[o])

\* rotate, flipHoriz, flipVert and the property setters of an object: the
\* model records the call and the object announces changed()
ObjectCall(m, o, method, arg) ==
    EmitChanged([m EXCEPT !.calls = Append(@, Call(method, o, arg))], o, m.conn[o])

-----------------------------------------------------------------------------
(* LabelModel: object and selection management                             *)

\* a different insertion: the object is put at the bottom of the order
addObject_AtBottom(m, o) ==
    LET m1 == [m EXCEPT !.list = <<o>> \o @,
                        !.conn[o] = @ + 1,
                        !.mod = TRUE]
    IN  [m1 EXCEPT !.em = @ \o <<Signal("objectAdded", o, m1.list),
                                 Signal("changed", NULL, m1.list)>>]

addObject(m, o) ==
    LET m1 == [m EXCEPT !.list = Append(@, o),
                        !.conn[o] = @ + 1,
                        !.mod = TRUE]
    IN  [m1 EXCEPT !.em = @ \o <<Signal("objectAdded", o, m1.list),
                                 Signal("changed", NULL, m1.list)>>]

deleteObject(m, o) ==
    LET m1 == [unselect(m, o) EXCEPT !.list = RemoveOne(@, o),
                                     !.conn[o] = 0,
                                     !.mod = TRUE]
    IN  [m1 EXCEPT !.em = @ \o <<Signal("objectDeleted", o, m1.list),
                                 Signal("changed", NULL, m1.list)>>]

EmitSelectionChanged(m) == [m EXCEPT !.em = Append(@, Signal("selectionChanged", NULL, m.list))]
EmitModelChanged(m)     == [m EXCEPT !.em = Append(@, Signal("changed", NULL, m.list))]

selectObject(m, o)   == EmitSelectionChanged(select(m, o))
unselectObject(m, o) == EmitSelectionChanged(unselect(m, o))

\* a different loop: the top-most entry is left out
selectAll_SkipsLast(m) ==
    EmitSelectionChanged(
        [m EXCEPT !.sel = [o \in DOMAIN m.sel |->
            IF o \in Range(SubSeq(m.list, 1, Len(m.list) - 1)) THEN TRUE ELSE @[o]]])

selectAll(m) ==
    EmitSelectionChanged(
        [m EXCEPT !.sel = [o \in DOMAIN m.sel |-> IF o \in Range(m.list) THEN TRUE ELSE @[o]]])

\* unselectAll taking the model for unmodified once nothing is selected
unselectAll_ClearsModified(m) ==
    EmitSelectionChanged(
        [m EXCEPT !.sel = [o \in DOMAIN m.sel |-> IF o \in Range(m.list) THEN FALSE ELSE @[o]],
                  !.mod = FALSE])

unselectAll(m) ==
    EmitSelectionChanged(
        [m EXCEPT !.sel = [o \in DOMAIN m.sel |-> IF o \in Range(m.list) THEN FALSE ELSE @[o]]])

\* the test selectRegion applies to one object
InRegion(objectExtent, region) ==
    LET rX1 == Min2(region.x1, region.x2)
        rY1 == Min2(region.y1, region.y2)
        rX2 == Max2(region.x1, region.x2)
        rY2 == Max2(region.y1, region.y2)
    IN  /\ objectExtent.x1 >= rX1
        /\ objectExtent.x2 <= rX2
        /\ objectExtent.y1 >= rY1
        /\ objectExtent.y2 <= rY2

\* selectRegion replacing the selection by the objects inside the region
selectRegion_Replaces(m, region) ==
    EmitSelectionChanged(
        [m EXCEPT !.sel = [o \in DOMAIN m.sel |->
            IF o \in Range(m.list) THEN InRegion(getExtent(m, o), region) ELSE @[o]]])

selectRegion(m, region) ==
    EmitSelectionChanged(
        [m EXCEPT !.sel = [o \in DOMAIN m.sel |->
            IF o \in Range(m.list) /\ InRegion(getExtent(m, o), region) THEN TRUE ELSE @[o]]])

isSelectionEmpty(m) == \A i \in 1..Len(m.list) : ~isSelected(m, m.list[i])

\* counts list entries, not objects, as the loop does
isSelectionAtomic(m) ==
    Len(SelectSeq(m.list, LAMBDA o : isSelected(m, o))) = 1

\* the list the body of getSelection builds
SelectedObjects(m) == SelectSeq(m.list, LAMBDA o : isSelected(m, o))

\* getSelection has no return statement: flowing off its end is undefined
\* behaviour, so what the caller receives is any list of object pointers,
\* the list the body built among them.  (A run that the undefined
\* behaviour ends abnormally is a behaviour that stops here.)
getSelection(m) == {SelectedObjects(m)} \cup Indeterminate(DOMAIN m.sel)

\* getFirstSelectedObject returns from inside the loop, and flows off the
\* end when nothing is selected: then the result is any pointer value
getFirstSelectedObject(m) ==
    IF SelectedObjects(m) # <<>> THEN {Head(SelectedObjects(m))}
    ELSE DOMAIN m.sel \cup {NULL}

\* a different query: true only when every selected object supports text
canSelectionText_EverySelected(m) ==
    /\ \E i \in 1..Len(m.list) : isSelected(m, m.list[i])
    /\ \A i \in 1..Len(m.list) : isSelected(m, m.list[i]) => canText(m.list[i])

canSelectionText(m) ==
    \E i \in 1..Len(m.list) : isSelected(m, m.list[i]) /\ canText(m.list[i])

canSelectionFill(m) ==
    \E i \in 1..Len(m.list) : isSelected(m, m.list[i]) /\ canFill(m.list[i])

canSelectionLineColor(m) ==
    \E i \in 1..Len(m.list) : isSelected(m, m.list[i]) /\ canLineColor(m.list[i])

canSelectionLineWidth(m) ==
    \E i \in 1..Len(m.list) : isSelected(m, m.list[i]) /\ canLineWidth(m.list[i])

RECURSIVE DeleteEach(_, _)
DeleteEach(m, sl) ==
    IF sl = <<>> THEN m ELSE DeleteEach(deleteObject(m, Head(sl)), Tail(sl))

\* a different emission order: selectionChanged() before the final changed()
deleteSelection_ChangedLast(m, sl) ==
    LET m1 == [DeleteEach(m, sl) EXCEPT !.mod = TRUE]
    IN  EmitModelChanged(EmitSelectionChanged(m1))

deleteSelection(m, sl) ==
    LET m1 == [DeleteEach(m, sl) EXCEPT !.mod = TRUE]
    IN  EmitSelectionChanged(EmitModelChanged(m1))

RECURSIVE RemoveEach(_, _)
RemoveEach(list, sl) ==
    IF sl = <<>> THEN list ELSE RemoveEach(RemoveOne(list, Head(sl)), Tail(sl))

RECURSIVE PushBackEach(_, _)
PushBackEach(m, sl) ==
    IF sl = <<>> THEN m
    ELSE LET m1 == [m EXCEPT !.list = Append(@, Head(sl))]
         IN  PushBackEach([m1 EXCEPT !.em = Append(@, Signal("objectToTop", Head(sl), m1.list))],
                          Tail(sl))

RECURSIVE PushFrontEach(_, _)
PushFrontEach(m, sl) ==
    IF sl = <<>> THEN m
    ELSE LET m1 == [m EXCEPT !.list = <<Head(sl)>> \o @]
         IN  PushFrontEach([m1 EXCEPT !.em = Append(@, Signal("objectToBottom", Head(sl), m1.list))],
                           Tail(sl))

raiseSelectionToTop(m, sl) ==
    LET m1 == PushBackEach([m EXCEPT !.list = RemoveEach(@, sl)], sl)
    IN  EmitModelChanged([m1 EXCEPT !.mod = TRUE])

lowerSelectionToBottom(m, sl) ==
    LET m1 == PushFrontEach([m EXCEPT !.list = RemoveEach(@, sl)], sl)
    IN  EmitModelChanged([m1 EXCEPT !.mod = TRUE])

-----------------------------------------------------------------------------
(* LabelModel: operations on the objects of the selection                  *)

\* page size of the attached template, LabelModel::w() and h()
PageW == 200
PageH == 100

\* foreach over mObjectList: the call on every entry that is selected
RECURSIVE CallEachSelected(_, _, _, _)
CallEachSelected(m, list, method, arg) ==
    IF list = <<>> THEN m
    ELSE CallEachSelected(
             IF isSelected(m, Head(list)) THEN ObjectCall(m, Head(list), method, arg) ELSE m,
             Tail(list), method, arg)

rotateSelection(m, thetaDegs) ==
    EmitModelChanged([CallEachSelected(m, m.list, "rotate", thetaDegs) EXCEPT !.mod = TRUE])

flipSelectionHoriz(m) ==
    EmitModelChanged([CallEachSelected(m, m.list, "flipHoriz", 0) EXCEPT !.mod = TRUE])

flipSelectionVert(m) ==
    EmitModelChanged([CallEachSelected(m, m.list, "flipVert", 0) EXCEPT !.mod = TRUE])

\* the eleven setSelection<Property> methods are one loop each, alike but
\* for the object setter set<Property> they call
Properties == {"FontFamily", "FontSize", "FontWeight", "FontItalicFlag",
               "TextHAlign", "TextVAlign", "TextLineSpacing", "TextColorNode",
               "LineWidth", "LineColorNode", "FillColorNode"}

\* a different loop: objects that do not support text are skipped
setSelectionProperty_TextOnly(m, property, value) ==
    EmitModelChanged(
        [CallEachSelected(m, SelectSeq(m.list, LAMBDA o : canText(o)), "set" \o property, value)
            EXCEPT !.mod = TRUE])

setSelectionProperty(m, property, value) ==
    EmitModelChanged(
        [CallEachSelected(m, m.list, "set" \o property, value) EXCEPT !.mod = TRUE])

\* the early return of the six align methods
AlignGuard(m) == isSelectionEmpty(m) \/ isSelectionAtomic(m)

\* "find left-most edge" and its three siblings: the extremum of one
\* corner coordinate over the list, starting from +-LargeValue
RECURSIVE EdgeMin(_, _, _, _)
EdgeMin(m, sl, axis, start) ==
    IF sl = <<>> THEN start
    ELSE LET r == getExtent(m, Head(sl))
             c == IF axis = "x" THEN r.x1 ELSE r.y1
         IN  EdgeMin(m, Tail(sl), axis, IF c < start THEN c ELSE start)

RECURSIVE EdgeMax(_, _, _, _)
EdgeMax(m, sl, axis, start) ==
    IF sl = <<>> THEN start
    ELSE LET r == getExtent(m, Head(sl))
             c == IF axis = "x" THEN r.x1 ELSE r.y1
         IN  EdgeMax(m, Tail(sl), axis, IF c > start THEN c ELSE start)

\* "now adjust the object positions": each object of the list, in turn, is
\* moved so that its x1 (y1) is the target
RECURSIVE AlignEdgeEach(_, _, _, _)
AlignEdgeEach(m, sl, axis, target) ==
    IF sl = <<>> THEN m
    ELSE LET r == getExtent(m, Head(sl))
             m1 == IF axis = "x"
                   THEN setPositionRelative(m, Head(sl), target - r.x1, 0)
                   ELSE setPositionRelative(m, Head(sl), 0, target - r.y1)
         IN  AlignEdgeEach(m1, Tail(sl), axis, target)

alignSelectionLeft(m, sl) ==
    EmitModelChanged(
        [AlignEdgeEach(m, sl, "x", EdgeMin(m, sl, "x", LargeValue)) EXCEPT !.mod = TRUE])

alignSelectionRight(m, sl) ==
    EmitModelChanged(
        [AlignEdgeEach(m, sl, "x", EdgeMax(m, sl, "x", -LargeValue)) EXCEPT !.mod = TRUE])

alignSelectionTop(m, sl) ==
    EmitModelChanged(
        [AlignEdgeEach(m, sl, "y", EdgeMin(m, sl, "y", LargeValue)) EXCEPT !.mod = TRUE])

alignSelectionBottom(m, sl) ==
    EmitModelChanged(
        [AlignEdgeEach(m, sl, "y", EdgeMax(m, sl, "y", -LargeValue)) EXCEPT !.mod = TRUE])

Center2(r, axis) == IF axis = "x" THEN CenterX2(r) ELSE CenterY2(r)

\* xsum (ysum), doubled: the sum of the (doubled) centers over the list
RECURSIVE CenterSum2(_, _, _)
CenterSum2(m, sl, axis) ==
    IF sl = <<>> THEN 0
    ELSE Center2(getExtent(m, Head(sl)), axis) + CenterSum2(m, Tail(sl), axis)

\* "find object closest to average center": with n objects and doubled
\* center sum s2, |avg - c| = |s2 - n * c2| / (2 n), so distances are compared
\* by their numerators.  best is <<dmin numerator, doubled center>>.
RECURSIVE Closest2(_, _, _, _, _, _)
Closest2(m, sl, axis, s2, n, best) ==
    IF sl = <<>> THEN best[2]
    ELSE LET c2 == Center2(getExtent(m, Head(sl)), axis)
             d  == Abs(s2 - n * c2)
         IN  Closest2(m, Tail(sl), axis, s2, n, IF d < best[1] THEN <<d, c2>> ELSE best)

\* each object of the list, in turn, is moved so that its center is the
\* target (given doubled)
RECURSIVE AlignCenterEach(_, _, _, _)
AlignCenterEach(m, sl, axis, target2) ==
    IF sl = <<>> THEN m
    ELSE LET r == getExtent(m, Head(sl))
             d == (target2 - Center2(r, axis)) \div 2
             m1 == IF axis = "x"
                   THEN setPositionRelative(m, Head(sl), d, 0)
                   ELSE setPositionRelative(m, Head(sl), 0, d)
         IN  AlignCenterEach(m1, Tail(sl), axis, target2)

AlignCenter(m, sl, axis) ==
    LET s2 == CenterSum2(m, sl, axis)
        n  == Len(sl)
        c2 == Closest2(m, sl, axis, s2, n, <<Abs(s2 - n * 2 * LargeValue), 2 * LargeValue>>)
    IN  EmitModelChanged([AlignCenterEach(m, sl, axis, c2) EXCEPT !.mod = TRUE])

alignSelectionHCenter(m, sl) == AlignCenter(m, sl, "x")

alignSelectionVCenter(m, sl) == AlignCenter(m, sl, "y")

\* a different offset: the left (top) edge, not the center, is put on the
\* center of the page
RECURSIVE CenterEachSelected_FromCorner(_, _, _)
CenterEachSelected_FromCorner(m, list, axis) ==
    IF list = <<>> THEN m
    ELSE LET o == Head(list)
             r == getExtent(m, o)
             m1 == IF ~isSelected(m, o) THEN m
                   ELSE IF axis = "x"
                   THEN setPositionRelative(m, o, PageW \div 2 - r.x1, 0)
                   ELSE setPositionRelative(m, o, 0, PageH \div 2 - r.y1)
         IN  CenterEachSelected_FromCorner(m1, Tail(list), axis)

\* foreach over mObjectList: every selected entry is centered on the page
RECURSIVE CenterEachSelected(_, _, _)
CenterEachSelected(m, list, axis) ==
    IF list = <<>> THEN m
    ELSE LET o == Head(list)
             r == getExtent(m, o)
             m1 == IF ~isSelected(m, o) THEN m
                   ELSE IF axis = "x"
                   THEN setPositionRelative(m, o, (PageW - CenterX2(r)) \div 2, 0)
                   ELSE setPositionRelative(m, o, 0, (PageH - CenterY2(r)) \div 2)
         IN  CenterEachSelected(m1, Tail(list), axis)

centerSelectionHoriz(m) ==
    EmitModelChanged([CenterEachSelected(m, m.list, "x") EXCEPT !.mod = TRUE])

centerSelectionVert(m) ==
    EmitModelChanged([CenterEachSelected(m, m.list, "y") EXCEPT !.mod = TRUE])

RECURSIVE MoveEachSelected(_, _, _, _)
MoveEachSelected(m, list, dx, dy) ==
    IF list = <<>> THEN m
    ELSE MoveEachSelected(
             IF isSelected(m, Head(list)) THEN setPositionRelative(m, Head(list), dx, dy) ELSE m,
             Tail(list), dx, dy)

moveSelection(m, dx, dy) ==
    EmitModelChanged([MoveEachSelected(m, m.list, dx, dy) EXCEPT !.mod = TRUE])

-----------------------------------------------------------------------------
(* The merge source the model consumes: an ordered list of field keys and  *)
(* a sequence of records, each a value per key and a selected-for-merge    *)
(* flag.  A record's values name the source and the record they come from. *)

\* no merge source attached
NoMerge == [location |-> "none", keys |-> <<>>, records |-> <<>>]

\* the keys in the order supplied, first occurrences only
RECURSIVE Dedup(_)
Dedup(keys) ==
    IF keys = <<>> THEN <<>>
    ELSE <<Head(keys)>> \o Dedup(SelectSeq(Tail(keys), LAMBDA k : k # Head(keys)))

MergeRecord(location, keys, i, sel) ==
    [values |-> [k \in Range(keys) |-> <<location, i>>], selected |-> sel]

\* the source read from a location that supplies the keys and n records;
\* sel is the initial value of the selected-for-merge flags
MergeSource(location, suppliedKeys, n, sel) ==
    LET keys == Dedup(suppliedKeys)
    IN  [location |-> location,
         keys     |-> keys,
         records  |-> [i \in 1..n |-> MergeRecord(location, keys, i, sel)]]

\* a partial update: the new keys and records are added to the old ones
setMerge_Appends(old, source) ==
    [source EXCEPT !.keys = old.keys \o @, !.records = old.records \o @]

\* changing the active source replaces it wholesale
setMerge(old, source) == source

setRecordSelected(mg, i, b) == [mg EXCEPT !.records[i].selected = b]

-----------------------------------------------------------------------------
(* Db (src/glabels/Db.cpp): the registry of papers, categories, vendors    *)
(* and templates.  A paper or category is its id and name, a vendor its    *)
(* name and url, a template its brand and part.  A pointer handed back by  *)
(* a lookup is a list of at most one entry, the empty list being NULL.     *)

\* the static lists before anything is registered
EmptyDb ==
    [mPapers |-> <<>>, mPaperIds |-> <<>>, mPaperNames |-> <<>>,
     mCategories |-> <<>>, mCategoryIds |-> <<>>, mCategoryNames |-> <<>>,
     mVendors |-> <<>>, mVendorNames |-> <<>>,
     mTemplates |-> <<>>]

\* no lookup called yet
NoFound == [status |-> "none", ptr |-> <<>>]

Returned(entry) == [status |-> "returned", ptr |-> <<entry>>]
ReturnedNull    == [status |-> "returned", ptr |-> <<>>]

\* what the callers see of a template's name
TemplateName(tmplate) == tmplate.brand \o " " \o tmplate.part

isPaperIdKnown(d, id) == \E i \in 1..Len(d.mPapers) : d.mPapers[i].id = id

isCategoryIdKnown(d, id) == \E i \in 1..Len(d.mCategories) : d.mCategories[i].id = id

isVendorNameKnown(d, name) == \E i \in 1..Len(d.mVendors) : d.mVendors[i].name = name

isTemplateKnown(d, brand, part) ==
    \E i \in 1..Len(d.mTemplates) :
        d.mTemplates[i].brand = brand /\ d.mTemplates[i].part = part

\* registerPaper with the name recorded whether or not the id is known
registerPaper_NameOutsideGuard(d, paper) ==
    LET named == [d EXCEPT !.mPaperNames = Append(@, paper.name)]
    IN  IF ~isPaperIdKnown(d, paper.id)
        THEN [named EXCEPT !.mPapers = Append(@, paper), !.mPaperIds = Append(@, paper.id)]
        ELSE named

registerPaper(d, paper) ==
    IF ~isPaperIdKnown(d, paper.id)
    THEN [d EXCEPT !.mPapers = Append(@, paper),
                   !.mPaperIds = Append(@, paper.id),
                   !.mPaperNames = Append(@, paper.name)]
    ELSE d

registerCategory(d, category) ==
    IF ~isCategoryIdKnown(d, category.id)
    THEN [d EXCEPT !.mCategories = Append(@, category),
                   !.mCategoryIds = Append(@, category.id),
                   !.mCategoryNames = Append(@, category.name)]
    ELSE d

registerVendor(d, vendor) ==
    IF ~isVendorNameKnown(d, vendor.name)
    THEN [d EXCEPT !.mVendors = Append(@, vendor),
                   !.mVendorNames = Append(@, vendor.name)]
    ELSE d

registerTemplate(d, tmplate) ==
    IF ~isTemplateKnown(d, tmplate.brand, tmplate.part)
    THEN [d EXCEPT !.mTemplates = Append(@, tmplate)]
    ELSE d

\* QList::first(): on an empty list it is undefined behaviour (an assertion
\* in builds that keep assertions, a read of no element otherwise), so the
\* call either aborts or hands back an indeterminate pointer
First(list) ==
    IF list # <<>> THEN {Returned(list[1])}
    ELSE {[status |-> "aborted", ptr |-> <<>>], [status |-> "indeterminate", ptr |-> <<>>]}

\* the foreach of a lookup: the first of the entries that pass its test, in
\* list order, or NULL
FirstWith(hits) == {IF hits = <<>> THEN ReturnedNull ELSE Returned(hits[1])}

lookupPaperFromName(d, name) ==
    IF name = "" THEN First(d.mPapers)
    ELSE FirstWith(SelectSeq(d.mPapers, LAMBDA paper : paper.name = name))

lookupPaperFromId(d, id) ==
    IF id = "" THEN First(d.mPapers)
    ELSE FirstWith(SelectSeq(d.mPapers, LAMBDA paper : paper.id = id))

lookupCategoryFromName(d, name) ==
    IF name = "" THEN First(d.mCategories)
    ELSE FirstWith(SelectSeq(d.mCategories, LAMBDA category : category.name = name))

lookupCategoryFromId(d, id) ==
    IF id = "" THEN First(d.mCategories)
    ELSE FirstWith(SelectSeq(d.mCategories, LAMBDA category : category.id = id))

lookupVendorFromName(d, name) ==
    IF name = "" THEN First(d.mVendors)
    ELSE FirstWith(SelectSeq(d.mVendors, LAMBDA vendor : vendor.name = name))

lookupTemplateFromName(d, name) ==
    IF name = "" THEN First(d.mTemplates)
    ELSE FirstWith(SelectSeq(d.mTemplates, LAMBDA tmplate : TemplateName(tmplate) = name))

lookupTemplateFromBrandPart(d, brand, part) ==
    IF brand = "" \/ part = "" THEN First(d.mTemplates)
    ELSE FirstWith(SelectSeq(d.mTemplates, LAMBDA tmplate : tmplate.brand = brand /\ tmplate.part = part))

-----------------------------------------------------------------------------
(* Inputs                                                                  *)

\* regions handed to selectRegion, corners in either order
Regions == {Region(30, 30, 110, 70), Region(110, 70, 30, 30),
            Region(50, 30, 170, 70), Region(0, 0, 200, 100)}

\* angles handed to rotateSelection
Angles == {45}

\* value handed to a property setter
Values == {1}

\* offsets handed to moveSelection
MoveDeltas == {<<10, 0>>, <<-10, 0>>, <<0, 20>>, <<0, 0>>}

\* field keys and locations of merge sources
KeyNames == {"id", "name", "email"}
Locations == {"a.csv", "b.csv"}

\* extent of object o as constructed: 20 o wide, 20 high, vertically
\* centered on the page, left edges 10 apart
InitExtent(o) == Region(10 * o, 40, 30 * o, 60)

-----------------------------------------------------------------------------
(* Actions: one per LabelModel method                                      *)

Commit(op, sl, m, r) ==
    /\ mObjectList' = m.list
    /\ selected' = m.sel
    /\ extent' = m.ext
    /\ conn' = m.conn
    /\ mModified' = m.mod
    /\ lastOp' = op
    /\ selectedList' = sl
    /\ emitted' = m.em
    /\ calls' = m.calls
    /\ ret' = r
    /\ merge' = merge
    /\ db' = db
    /\ found' = found

AddObject(o) ==
    Commit(Op("addObject", o, <<Count(mObjectList, o)>>), <<>>, addObject(Cur, o), NoRet)

DeleteObject(o) ==
    Commit(Op("deleteObject", o, <<Count(mObjectList, o)>>), <<>>, deleteObject(Cur, o), NoRet)

SelectObject(o) ==
    Commit(Op("selectObject", o, <<>>), <<>>, selectObject(Cur, o), NoRet)

UnselectObject(o) ==
    Commit(Op("unselectObject", o, <<>>), <<>>, unselectObject(Cur, o), NoRet)

SelectAll ==
    Commit(Op("selectAll", NULL, <<>>), <<>>, selectAll(Cur), NoRet)

UnselectAll ==
    Commit(Op("unselectAll", NULL, <<>>), <<>>, unselectAll(Cur), NoRet)

SelectRegion(region) ==
    Commit(Op("selectRegion", NULL, <<region.x1, region.y1, region.x2, region.y2>>),
           <<>>, selectRegion(Cur, region), NoRet)

IsSelectionEmpty ==
    Commit(Op("isSelectionEmpty", NULL, <<>>), <<>>, Cur,
           [NoRet EXCEPT !.bool = isSelectionEmpty(Cur)])

IsSelectionAtomic ==
    Commit(Op("isSelectionAtomic", NULL, <<>>), <<>>, Cur,
           [NoRet EXCEPT !.bool = isSelectionAtomic(Cur)])

GetSelection ==
    \E sl \in getSelection(Cur) :
        Commit([Op("getSelection", NULL, <<>>) EXCEPT
                    !.after = IF lastOp.name = "deleteObject"
                              THEN <<lastOp.name, lastOp.obj, lastOp.args>> ELSE @],
               <<>>, Cur, [NoRet EXCEPT !.list = sl])

GetFirstSelectedObject ==
    \E o \in getFirstSelectedObject(Cur) :
        Commit(Op("getFirstSelectedObject", NULL, <<>>), <<>>, Cur, [NoRet EXCEPT !.obj = o])

CanSelectionText ==
    Commit(Op("canSelectionText", NULL, <<>>), <<>>, Cur,
           [NoRet EXCEPT !.bool = canSelectionText(Cur)])

CanSelectionFill ==
    Commit(Op("canSelectionFill", NULL, <<>>), <<>>, Cur,
           [NoRet EXCEPT !.bool = canSelectionFill(Cur)])

CanSelectionLineColor ==
    Commit(Op("canSelectionLineColor", NULL, <<>>), <<>>, Cur,
           [NoRet EXCEPT !.bool = canSelectionLineColor(Cur)])

CanSelectionLineWidth ==
    Commit(Op("canSelectionLineWidth", NULL, <<>>), <<>>, Cur,
           [NoRet EXCEPT !.bool = canSelectionLineWidth(Cur)])

DeleteSelection ==
    \E sl \in getSelection(Cur) :
        Commit(Op("deleteSelection", NULL, <<>>), sl, deleteSelection(Cur, sl), NoRet)

RaiseSelectionToTop ==
    \E sl \in getSelection(Cur) :
        Commit(Op("raiseSelectionToTop", NULL, <<>>), sl, raiseSelectionToTop(Cur, sl), NoRet)

LowerSelectionToBottom ==
    \E sl \in getSelection(Cur) :
        Commit(Op("lowerSelectionToBottom", NULL, <<>>), sl,
                  lowerSelectionToBottom(Cur, sl), NoRet)

RotateSelection(thetaDegs) ==
    Commit(Op("rotateSelection", NULL, <<thetaDegs>>), <<>>,
           rotateSelection(Cur, thetaDegs), NoRet)

RotateSelectionLeft ==
    Commit(Op("rotateSelectionLeft", NULL, <<>>), <<>>, rotateSelection(Cur, -90), NoRet)

RotateSelectionRight ==
    Commit(Op("rotateSelectionRight", NULL, <<>>), <<>>, rotateSelection(Cur, 90), NoRet)

FlipSelectionHoriz ==
    Commit(Op("flipSelectionHoriz", NULL, <<>>), <<>>, flipSelectionHoriz(Cur), NoRet)

FlipSelectionVert ==
    Commit(Op("flipSelectionVert", NULL, <<>>), <<>>, flipSelectionVert(Cur), NoRet)

SetSelectionProperty(property, value) ==
    Commit(Op("setSelection" \o property, NULL, <<value>>), <<>>,
           setSelectionProperty(Cur, property, value), NoRet)

AlignSelectionLeft ==
    IF AlignGuard(Cur)
    THEN Commit(Op("alignSelectionLeft", NULL, <<>>), <<>>, Cur, NoRet)
    ELSE \E sl \in getSelection(Cur) :
            Commit(Op("alignSelectionLeft", NULL, <<>>), sl, alignSelectionLeft(Cur, sl), NoRet)

AlignSelectionRight ==
    IF AlignGuard(Cur)
    THEN Commit(Op("alignSelectionRight", NULL, <<>>), <<>>, Cur, NoRet)
    ELSE \E sl \in getSelection(Cur) :
            Commit(Op("alignSelectionRight", NULL, <<>>), sl, alignSelectionRight(Cur, sl), NoRet)

AlignSelectionHCenter ==
    IF AlignGuard(Cur)
    THEN Commit(Op("alignSelectionHCenter", NULL, <<>>), <<>>, Cur, NoRet)
    ELSE \E sl \in getSelection(Cur) :
            Commit(Op("alignSelectionHCenter", NULL, <<>>), sl,
                   alignSelectionHCenter(Cur, sl), NoRet)

AlignSelectionTop ==
    IF AlignGuard(Cur)
    THEN Commit(Op("alignSelectionTop", NULL, <<>>), <<>>, Cur, NoRet)
    ELSE \E sl \in getSelection(Cur) :
            Commit(Op("alignSelectionTop", NULL, <<>>), sl, alignSelectionTop(Cur, sl), NoRet)

AlignSelectionBottom ==
    IF AlignGuard(Cur)
    THEN Commit(Op("alignSelectionBottom", NULL, <<>>), <<>>, Cur, NoRet)
    ELSE \E sl \in getSelection(Cur) :
            Commit(Op("alignSelectionBottom", NULL, <<>>), sl,
                   alignSelectionBottom(Cur, sl), NoRet)

AlignSelectionVCenter ==
    IF AlignGuard(Cur)
    THEN Commit(Op("alignSelectionVCenter", NULL, <<>>), <<>>, Cur, NoRet)
    ELSE \E sl \in getSelection(Cur) :
            Commit(Op("alignSelectionVCenter", NULL, <<>>), sl,
                   alignSelectionVCenter(Cur, sl), NoRet)

CenterSelectionHoriz ==
    Commit(Op("centerSelectionHoriz", NULL, <<>>), <<>>, centerSelectionHoriz(Cur), NoRet)

CenterSelectionVert ==
    Commit(Op("centerSelectionVert", NULL, <<>>), <<>>, centerSelectionVert(Cur), NoRet)

MoveSelection(dx, dy) ==
    Commit(Op("moveSelection", NULL, <<dx, dy>>), <<>>, moveSelection(Cur, dx, dy), NoRet)

-----------------------------------------------------------------------------
(* Spec: every sequence of calls on a freshly constructed, empty model,    *)
(* with MaxObjects objects its callers may hand to it.  The stacking order *)
(* is kept to MaxObjects entries and the objects to the places where fresh *)
(* objects start.                                                          *)

Init ==
    /\ mObjectList = <<>>
    /\ selected = [o \in 1..MaxObjects |-> FALSE]
    /\ extent = [o \in 1..MaxObjects |-> InitExtent(o)]
    /\ conn = [o \in 1..MaxObjects |-> 0]
    /\ mModified = TRUE
    /\ lastOp = NoOp
    /\ selectedList = <<>>
    /\ emitted = <<>>
    /\ calls = <<>>
    /\ ret = NoRet
    /\ merge = NoMerge
    /\ db = EmptyDb
    /\ found = NoFound

Bounded ==
    /\ Len(mObjectList') <= MaxObjects
    /\ \A o \in Obj : /\ extent'[o].x1 >= 10
                      /\ extent'[o].x1 <= 10 * MaxObjects
                      /\ extent'[o].y1 = 40

Next ==
    \/ \E o \in Obj : AddObject(o) /\ Bounded
    \/ \E o \in Obj : DeleteObject(o)
    \/ \E o \in Obj : SelectObject(o)
    \/ \E o \in Obj : UnselectObject(o)
    \/ SelectAll
    \/ UnselectAll
    \/ \E region \in Regions : SelectRegion(region)
    \/ IsSelectionEmpty
    \/ IsSelectionAtomic
    \/ GetSelection
    \/ GetFirstSelectedObject
    \/ CanSelectionText
    \/ CanSelectionFill
    \/ CanSelectionLineColor
    \/ CanSelectionLineWidth
    \/ DeleteSelection
    \/ RaiseSelectionToTop /\ Bounded
    \/ LowerSelectionToBottom /\ Bounded
    \/ \E thetaDegs \in Angles : RotateSelection(thetaDegs)
    \/ RotateSelectionLeft
    \/ RotateSelectionRight
    \/ FlipSelectionHoriz
    \/ FlipSelectionVert
    \/ \E property \in Properties, value \in Values : SetSelectionProperty(property, value)
    \/ AlignSelectionLeft /\ Bounded
    \/ AlignSelectionRight /\ Bounded
    \/ AlignSelectionHCenter /\ Bounded
    \/ AlignSelectionTop /\ Bounded
    \/ AlignSelectionBottom /\ Bounded
    \/ AlignSelectionVCenter /\ Bounded
    \/ CenterSelectionHoriz /\ Bounded
    \/ CenterSelectionVert /\ Bounded
    \/ \E d \in MoveDeltas : MoveSelection(d[1], d[2]) /\ Bounded

Spec == Init /\ [][Next]_vars

-----------------------------------------------------------------------------
(* SpecCall: one call of any method on any label.  The initial states are  *)
(* the labels that addObject and selectObject build from CallObjects       *)
(* objects: any stacking order of up to CallObjects entries (an object     *)
(* added twice included), any selection.  getSelection may be called once  *)
(* more right after a deleteObject.                                        *)

Fresh == lastOp = NoOp

InitCall ==
    /\ mObjectList \in UNION { [1..k -> 1..CallObjects] : k \in 0..CallObjects }
    /\ selected \in [1..CallObjects -> BOOLEAN]
    /\ extent = [o \in 1..CallObjects |-> InitExtent(o)]
    /\ conn = [o \in 1..CallObjects |-> Count(mObjectList, o)]
    /\ mModified = TRUE
    /\ lastOp = NoOp
    /\ selectedList = <<>>
    /\ emitted = <<>>
    /\ calls = <<>>
    /\ ret = NoRet
    /\ merge = NoMerge
    /\ db = EmptyDb
    /\ found = NoFound

NextCall ==
    \/ \E o \in Obj : Fresh /\ AddObject(o)
    \/ \E o \in Obj : Fresh /\ DeleteObject(o)
    \/ \E o \in Obj : Fresh /\ SelectObject(o)
    \/ \E o \in Obj : Fresh /\ UnselectObject(o)
    \/ Fresh /\ SelectAll
    \/ Fresh /\ UnselectAll
    \/ \E region \in Regions : Fresh /\ SelectRegion(region)
    \/ Fresh /\ IsSelectionEmpty
    \/ Fresh /\ IsSelectionAtomic
    \/ (Fresh \/ lastOp.name = "deleteObject") /\ GetSelection
    \/ Fresh /\ GetFirstSelectedObject
    \/ Fresh /\ CanSelectionText
    \/ Fresh /\ CanSelectionFill
    \/ Fresh /\ CanSelectionLineColor
    \/ Fresh /\ CanSelectionLineWidth
    \/ Fresh /\ DeleteSelection
    \/ Fresh /\ RaiseSelectionToTop
    \/ Fresh /\ LowerSelectionToBottom
    \/ \E thetaDegs \in Angles : Fresh /\ RotateSelection(thetaDegs)
    \/ Fresh /\ RotateSelectionLeft
    \/ Fresh /\ RotateSelectionRight
    \/ Fresh /\ FlipSelectionHoriz
    \/ Fresh /\ FlipSelectionVert
    \/ \E property \in Properties, value \in Values :
            Fresh /\ SetSelectionProperty(property, value)
    \/ Fresh /\ AlignSelectionLeft
    \/ Fresh /\ AlignSelectionRight
    \/ Fresh /\ AlignSelectionHCenter
    \/ Fresh /\ AlignSelectionTop
    \/ Fresh /\ AlignSelectionBottom
    \/ Fresh /\ AlignSelectionVCenter
    \/ Fresh /\ CenterSelectionHoriz
    \/ Fresh /\ CenterSelectionVert
    \/ \E d \in MoveDeltas : Fresh /\ MoveSelection(d[1], d[2])

SpecCall == InitCall /\ [][NextCall]_vars

-----------------------------------------------------------------------------
(* SpecScene: one call of a method that reads or moves extents, on any     *)
(* scene: SceneObjects objects on the label, each with any extent of       *)
(* SceneExtents, any selection.  Extents have even width and height, so    *)
(* that every center is a whole number of points.                          *)

\* x1, x2 of the extents drawn: centers 50, 150, 90 (20 wide), 50 (100 wide),
\* 50 with the corners the other way round, and 14400 and -14400 beyond
\* LargeValue and -LargeValue
SceneX == {<<40, 60>>, <<140, 160>>, <<80, 100>>, <<0, 100>>, <<60, 40>>,
           <<14390, 14410>>, <<-14410, -14390>>}

\* y1, y2 of the extents drawn
SceneY == {<<40, 60>>, <<0, 20>>}

SceneExtents == { Region(x[1], y[1], x[2], y[2]) : x \in SceneX, y \in SceneY }

InitScene ==
    /\ mObjectList = [i \in 1..SceneObjects |-> i]
    /\ selected \in [1..SceneObjects -> BOOLEAN]
    /\ extent \in [1..SceneObjects -> SceneExtents]
    /\ conn = [o \in 1..SceneObjects |-> 1]
    /\ mModified = TRUE
    /\ lastOp = NoOp
    /\ selectedList = <<>>
    /\ emitted = <<>>
    /\ calls = <<>>
    /\ ret = NoRet
    /\ merge = NoMerge
    /\ db = EmptyDb
    /\ found = NoFound

NextScene ==
    \/ \E region \in Regions : Fresh /\ SelectRegion(region)
    \/ Fresh /\ AlignSelectionLeft
    \/ Fresh /\ AlignSelectionRight
    \/ Fresh /\ AlignSelectionHCenter
    \/ Fresh /\ AlignSelectionTop
    \/ Fresh /\ AlignSelectionBottom
    \/ Fresh /\ AlignSelectionVCenter
    \/ Fresh /\ CenterSelectionHoriz
    \/ Fresh /\ CenterSelectionVert
    \/ \E d \in MoveDeltas : Fresh /\ MoveSelection(d[1], d[2])

SpecScene == InitScene /\ [][NextScene]_vars

-----------------------------------------------------------------------------
(* SpecPlace: one call of a method that places the selected objects at a   *)
(* position given by the page or by the caller, on any scene of            *)
(* SceneObjects objects with extents of PlaceExtents, any selection.       *)

\* the extents of SceneExtents on the page: 20 and 100 wide, and one with
\* its corners the other way round
PlaceExtents == { r \in SceneExtents : r.x1 >= 0 /\ r.x1 <= PageW /\ r.x1 # 80 }

InitPlace ==
    /\ mObjectList = [i \in 1..SceneObjects |-> i]
    /\ selected \in [1..SceneObjects -> BOOLEAN]
    /\ extent \in [1..SceneObjects -> PlaceExtents]
    /\ conn = [o \in 1..SceneObjects |-> 1]
    /\ mModified = TRUE
    /\ lastOp = NoOp
    /\ selectedList = <<>>
    /\ emitted = <<>>
    /\ calls = <<>>
    /\ ret = NoRet
    /\ merge = NoMerge
    /\ db = EmptyDb
    /\ found = NoFound

NextPlace ==
    \/ Fresh /\ CenterSelectionHoriz
    \/ Fresh /\ CenterSelectionVert
    \/ \E d \in MoveDeltas : Fresh /\ MoveSelection(d[1], d[2])

SpecPlace == InitPlace /\ [][NextPlace]_vars

-----------------------------------------------------------------------------
(* SpecMerge: merge sources attached, replaced and their records selected, *)
(* on an empty label.                                                      *)

SetMerge(location, suppliedKeys, n, sel) ==
    /\ merge' = setMerge(merge, MergeSource(location, suppliedKeys, n, sel))
    /\ lastOp' = Op("setMerge", NULL, <<location, suppliedKeys, n>>)
    /\ selectedList' = <<>> /\ emitted' = <<>> /\ calls' = <<>> /\ ret' = NoRet
    /\ UNCHANGED <<mObjectList, selected, extent, conn, mModified, db, found>>

SetRecordSelected(i, b) ==
    /\ merge' = setRecordSelected(merge, i, b)
    /\ lastOp' = Op("setRecordSelected", NULL, <<i, b>>)
    /\ selectedList' = <<>> /\ emitted' = <<>> /\ calls' = <<>> /\ ret' = NoRet
    /\ UNCHANGED <<mObjectList, selected, extent, conn, mModified, db, found>>

NextMerge ==
    \/ \E location \in Locations, n \in {0, MaxRecords}, sel \in BOOLEAN :
         \E suppliedKeys \in UNION { [1..k -> KeyNames] : k \in 0..MaxKeys } :
            SetMerge(location, suppliedKeys, n, sel)
    \/ \E i \in 1..Len(merge.records), b \in BOOLEAN : SetRecordSelected(i, b)

SpecMerge == Init /\ [][NextMerge]_vars

-----------------------------------------------------------------------------
(* SpecDb: entries registered one after another from the empty registry,   *)
(* and the lookups called on every registry so reached.                    *)

\* the entries handed to the register calls: some share a key
Pool ==
    [paper    |-> {[id |-> "a", name |-> "n1"], [id |-> "b", name |-> "n1"], [id |-> "a", name |-> "n2"]},
     category |-> {[id |-> "a", name |-> "n1"], [id |-> "b", name |-> "n1"], [id |-> "b", name |-> "n2"]},
     vendor   |-> {[name |-> "v1", url |-> "u1"], [name |-> "v1", url |-> "u2"], [name |-> "v2", url |-> "u1"]},
     template |-> {[brand |-> "x", part |-> "1"], [brand |-> "x", part |-> "2"], [brand |-> "y", part |-> "1"]}]

\* the identifiers handed to the lookups: the empty one, registered ones
\* and one that is never registered
LookupKeys ==
    [id       |-> {"", "a", "b", "c"},
     name     |-> {"", "n1", "n2", "n3"},
     vendor   |-> {"", "v1", "v2", "v3"},
     template |-> {"", "x 1", "x 2", "y 1", "y 2"},
     brand    |-> {"", "x", "y"},
     part     |-> {"", "1", "2"}]

Registered(d) == Len(d.mPapers) + Len(d.mCategories) + Len(d.mVendors) + Len(d.mTemplates)

DbCommit(op, d, f) ==
    /\ db' = d
    /\ found' = f
    /\ lastOp' = op
    /\ selectedList' = <<>> /\ emitted' = <<>> /\ calls' = <<>> /\ ret' = NoRet
    /\ UNCHANGED <<mObjectList, selected, extent, conn, mModified, merge>>

RegisterPaper(paper) ==
    /\ Registered(registerPaper(db, paper)) <= MaxRegistered
    /\ DbCommit(Op("registerPaper", NULL, <<paper>>), registerPaper(db, paper), NoFound)

RegisterCategory(category) ==
    /\ Registered(registerCategory(db, category)) <= MaxRegistered
    /\ DbCommit(Op("registerCategory", NULL, <<category>>), registerCategory(db, category), NoFound)

RegisterVendor(vendor) ==
    /\ Registered(registerVendor(db, vendor)) <= MaxRegistered
    /\ DbCommit(Op("registerVendor", NULL, <<vendor>>), registerVendor(db, vendor), NoFound)

RegisterTemplate(tmplate) ==
    /\ Registered(registerTemplate(db, tmplate)) <= MaxRegistered
    /\ DbCommit(Op("registerTemplate", NULL, <<tmplate>>), registerTemplate(db, tmplate), NoFound)

LookupPaperFromName(name) ==
    \E f \in lookupPaperFromName(db, name) :
        DbCommit(Op("lookupPaperFromName", NULL, <<name>>), db, f)

LookupPaperFromId(id) ==
    \E f \in lookupPaperFromId(db, id) :
        DbCommit(Op("lookupPaperFromId", NULL, <<id>>), db, f)

LookupCategoryFromName(name) ==
    \E f \in lookupCategoryFromName(db, name) :
        DbCommit(Op("lookupCategoryFromName", NULL, <<name>>), db, f)

LookupCategoryFromId(id) ==
    \E f \in lookupCategoryFromId(db, id) :
        DbCommit(Op("lookupCategoryFromId", NULL, <<id>>), db, f)

LookupVendorFromName(name) ==
    \E f \in lookupVendorFromName(db, name) :
        DbCommit(Op("lookupVendorFromName", NULL, <<name>>), db, f)

LookupTemplateFromName(name) ==
    \E f \in lookupTemplateFromName(db, name) :
        DbCommit(Op("lookupTemplateFromName", NULL, <<name>>), db, f)

LookupTemplateFromBrandPart(brand, part) ==
    \E f \in lookupTemplateFromBrandPart(db, brand, part) :
        DbCommit(Op("lookupTemplateFromBrandPart", NULL, <<brand, part>>), db, f)

NextDb ==
    \/ \E paper \in Pool.paper : RegisterPaper(paper)
    \/ \E category \in Pool.category : RegisterCategory(category)
    \/ \E vendor \in Pool.vendor : RegisterVendor(vendor)
    \/ \E tmplate \in Pool.template : RegisterTemplate(tmplate)
    \/ \E name \in LookupKeys.name : LookupPaperFromName(name)
    \/ \E id \in LookupKeys.id : LookupPaperFromId(id)
    \/ \E name \in LookupKeys.name : LookupCategoryFromName(name)
    \/ \E id \in LookupKeys.id : LookupCategoryFromId(id)
    \/ \E name \in LookupKeys.vendor : LookupVendorFromName(name)
    \/ \E name \in LookupKeys.template : LookupTemplateFromName(name)
    \/ \E brand \in LookupKeys.brand, part \in LookupKeys.part : LookupTemplateFromBrandPart(brand, part)

SpecDb == Init /\ [][NextDb]_vars

-----------------------------------------------------------------------------
(* Properties.  A property of one call is stated over a step: unprimed     *)
(* variables are the state before the call named by lastOp', primed ones   *)
(* the state after it.                                                     *)

\* the selection, in stacking order, and as a set
Selection == SelectSeq(mObjectList, LAMBDA o : selected[o])
SelectedSet == { o \in Range(mObjectList) : selected[o] }
UnselectedSet == { o \in Range(mObjectList) : ~selected[o] }

SetMin(S) == CHOOSE v \in S : \A w \in S : v <= w

\* C1: for every non-empty selection, after alignSelectionLeft every object
\* that was selected before the call has the same extent x1, the minimum x1
\* of the selected objects before the call.  (Stated for the calls in which
\* getSelection handed over the selected objects, in stacking order.)
C1_AlignLeftToMinimum ==
    [][ (lastOp'.name = "alignSelectionLeft" /\ SelectedSet # {} /\ selectedList' = Selection)
        => \A o \in SelectedSet :
               extent'[o].x1 = SetMin({ extent[p].x1 : p \in SelectedSet }) ]_vars

\* C2: after raiseSelectionToTop the previously selected objects occupy the
\* last positions of the stacking order, in their previous relative order,
\* above the unselected objects, which keep their relative order; the set of
\* objects is unchanged.
C2_RaiseKeepsOrder ==
    [][ lastOp'.name = "raiseSelectionToTop"
        => /\ mObjectList' = Restrict(mObjectList, UnselectedSet)
                                 \o Restrict(mObjectList, SelectedSet)
           /\ Range(mObjectList') = Range(mObjectList) ]_vars

\* C3: after lowerSelectionToBottom with two or more objects selected the
\* previously selected objects occupy the first positions of the stacking
\* order, below the unselected objects, in their previous relative order.
\* (Stated for the calls in which getSelection handed over the selected
\* objects, in stacking order.)
C3_LowerKeepsOrder ==
    [][ ( /\ lastOp'.name = "lowerSelectionToBottom"
          /\ Cardinality(SelectedSet) >= 2
          /\ selectedList' = Selection )
        => /\ SubSeq(mObjectList', 1, Len(Selection)) = Selection
           /\ \A i \in Len(Selection) + 1 .. Len(mObjectList') :
                  mObjectList'[i] \in UnselectedSet ]_vars

\* the bounding box of a region: its corners reordered by min/max
Box(r) == Region(Min2(r.x1, r.x2), Min2(r.y1, r.y2), Max2(r.x1, r.x2), Max2(r.y1, r.y2))
Inside(b, q) == b.x1 >= q.x1 /\ b.x2 <= q.x2 /\ b.y1 >= q.y1 /\ b.y2 <= q.y2

\* C4: selectRegion selects an object that was unselected only if the
\* object's whole bounding box (min/max of its corners) lies inside the
\* normalized region.
C4_SelectRegionOnlyContained ==
    [][ lastOp'.name = "selectRegion"
        => \A o \in Obj :
               (~selected[o] /\ selected'[o])
               => Inside(Box(extent[o]),
                         Box(Region(lastOp'.args[1], lastOp'.args[2],
                                    lastOp'.args[3], lastOp'.args[4]))) ]_vars

\* C5: the result of getSelection called right after deleteObject(obj), obj
\* a member of the stacking order, does not contain obj.
C5_DeletedNotInSelection ==
    (lastOp.name = "getSelection" /\ lastOp.after[1] = "deleteObject" /\ lastOp.after[3][1] >= 1)
    => lastOp.after[2] \notin Range(ret.list)

\* C6: in every reachable state the stacking order holds no object more
\* than once.
C6_NoDuplicateIdentities == NoDuplicates(mObjectList)

RECURSIVE SeqSum(_)
SeqSum(s) == IF s = <<>> THEN 0 ELSE Head(s) + SeqSum(Tail(s))

\* doubled centers of the selection, in stacking order, along an axis
SelCenters2(axis) == [i \in 1..Len(Selection) |-> Center2(extent[Selection[i]], axis)]

\* numerator of the distance of the i-th selected center to the mean center
MeanDist(axis, i) ==
    Abs(SeqSum(SelCenters2(axis)) - Len(Selection) * SelCenters2(axis)[i])

\* the anchor: the first selected object, in stacking order, whose center is
\* closest to the mean
AnchorIndex(axis) ==
    SetMin({ i \in 1..Len(Selection) :
                \A j \in 1..Len(Selection) : MeanDist(axis, i) <= MeanDist(axis, j) })

AlignedToAnchor(axis) ==
    \A o \in SelectedSet :
        /\ Center2(extent'[o], axis) = SelCenters2(axis)[AnchorIndex(axis)]
        /\ IF axis = "x"
           THEN extent'[o].y1 = extent[o].y1 /\ extent'[o].y2 = extent[o].y2
           ELSE extent'[o].x1 = extent[o].x1 /\ extent'[o].x2 = extent[o].x2

\* C7: alignSelectionHCenter (alignSelectionVCenter) with two or more
\* objects selected leaves every selected object's center on that axis at
\* the pre-call center of the anchor, the first selected object closest to
\* the mean of the selected centers; the other axis is unchanged.  (Stated
\* for the calls in which getSelection handed over the selected objects, in
\* stacking order.)
C7_AlignCenterToAnchor ==
    [][ (Len(Selection) >= 2 /\ selectedList' = Selection)
        => /\ lastOp'.name = "alignSelectionHCenter" => AlignedToAnchor("x")
           /\ lastOp'.name = "alignSelectionVCenter" => AlignedToAnchor("y") ]_vars

\* C8: getSelection returns the subsequence of the stacking order of the
\* objects whose selected flag is true (empty when nothing is selected);
\* getFirstSelectedObject returns the lowest selected object, and an absent
\* value when nothing is selected.
C8_SelectionAccessors ==
    /\ lastOp.name = "getSelection" => ret.list = Selection
    /\ lastOp.name = "getFirstSelectedObject"
           => ret.obj = IF Selection = <<>> THEN NULL ELSE Selection[1]

\* C9: each of canSelectionText, canSelectionFill, canSelectionLineColor and
\* canSelectionLineWidth returns true if and only if at least one object of
\* the stacking order is both selected and supports the capability.
C9_CapabilityQueries ==
    /\ lastOp.name = "canSelectionText"
           => (ret.bool <=> { o \in SelectedSet : canText(o) } # {})
    /\ lastOp.name = "canSelectionFill"
           => (ret.bool <=> { o \in SelectedSet : canFill(o) } # {})
    /\ lastOp.name = "canSelectionLineColor"
           => (ret.bool <=> { o \in SelectedSet : canLineColor(o) } # {})
    /\ lastOp.name = "canSelectionLineWidth"
           => (ret.bool <=> { o \in SelectedSet : canLineWidth(o) } # {})

\* canSelectionText answered true with two or more objects selected, one of
\* which does not support text
C9_Witness ==
    /\ lastOp.name = "canSelectionText"
    /\ ret.bool
    /\ Cardinality(SelectedSet) >= 2
    /\ \E o \in SelectedSet : ~canText(o)

SelectionOnlyOps == {"selectObject", "unselectObject", "selectAll", "unselectAll", "selectRegion"}

AlignOps == {"alignSelectionLeft", "alignSelectionRight", "alignSelectionHCenter",
             "alignSelectionTop", "alignSelectionBottom", "alignSelectionVCenter"}

MutatingOps ==
    {"addObject", "deleteObject", "raiseSelectionToTop", "lowerSelectionToBottom",
     "rotateSelection", "rotateSelectionLeft", "rotateSelectionRight",
     "flipSelectionHoriz", "flipSelectionVert",
     "centerSelectionHoriz", "centerSelectionVert", "moveSelection"}
    \cup { "setSelection" \o p : p \in Properties }

\* an align method takes effect when two or more entries are selected
TookEffect == lastOp.name \in AlignOps => Len(Selection) >= 2

ChangedIsLast == emitted # <<>> /\ emitted[Len(emitted)].sig = "changed"

OnlySelectionChanged ==
    emitted # <<>> /\ \A i \in 1..Len(emitted) : emitted[i].sig = "selectionChanged"

\* C10 as claimed: every mutating operation, deleteSelection among them,
\* emits changed() as the last notification of the call; the selection-only
\* operations emit selectionChanged() and never changed().
C10_ChangedIsLast ==
    /\ (lastOp.name \in MutatingOps \cup AlignOps \cup {"deleteSelection"} /\ TookEffect)
           => ChangedIsLast
    /\ lastOp.name \in SelectionOnlyOps => OnlySelectionChanged

\* C10 as amended: every mutating operation other than deleteSelection emits
\* changed() as the last notification of the call; deleteSelection emits
\* objectDeleted() and changed() notifications, a final changed(), and then
\* one selectionChanged() as its last notification; the selection-only
\* operations emit selectionChanged() and never changed().
C10_ChangedIsLastButDeleteSelection ==
    /\ (lastOp.name \in MutatingOps \cup AlignOps /\ TookEffect) => ChangedIsLast
    /\ lastOp.name = "deleteSelection"
           => /\ Len(emitted) >= 2
              /\ emitted[Len(emitted)].sig = "selectionChanged"
              /\ emitted[Len(emitted) - 1].sig = "changed"
              /\ \A i \in 1..Len(emitted) - 1 : emitted[i].sig \in {"objectDeleted", "changed"}
    /\ lastOp.name \in SelectionOnlyOps => OnlySelectionChanged

\* deleteSelection deleted two objects and then announced the selection change
C10_Witness ==
    /\ lastOp.name = "deleteSelection"
    /\ Len(selectedList) >= 2
    /\ Len(emitted) = 6
    /\ emitted[6].sig = "selectionChanged"

\* C11: whenever an observer's slot runs, the mutation of the stacking order
\* by the call that emitted the notification is complete: the stacking order
\* the observer finds is the one the call leaves behind.  (Stated for
\* stacking orders without duplicates and for the calls in which
\* getSelection handed over the selected objects, in stacking order.)
C11_ObserverSeesFinalState ==
    [][ ( /\ NoDuplicates(mObjectList)
          /\ lastOp'.name \in {"deleteSelection", "raiseSelectionToTop", "lowerSelectionToBottom"}
                => selectedList' = Selection )
        => \A i \in 1..Len(emitted') : emitted'[i].list = mObjectList' ]_vars

\* C12: selectObject, unselectObject, selectAll and unselectAll change only
\* selected flags: the stacking order, every extent and the modified flag
\* are unchanged, exactly one selectionChanged() and nothing else is
\* emitted; selectObject (unselectObject) sets (clears) the flag of its
\* object only, selectAll leaves every member selected and unselectAll none.
C12_SelectOpsChangeOnlyFlags ==
    [][ lastOp'.name \in {"selectObject", "unselectObject", "selectAll", "unselectAll"}
        => /\ mObjectList' = mObjectList
           /\ extent' = extent
           /\ mModified' = mModified
           /\ calls' = <<>>
           /\ Len(emitted') = 1
           /\ emitted'[1].sig = "selectionChanged"
           /\ lastOp'.name = "selectObject"
                => selected' = [selected EXCEPT ![lastOp'.obj] = TRUE]
           /\ lastOp'.name = "unselectObject"
                => selected' = [selected EXCEPT ![lastOp'.obj] = FALSE]
           /\ lastOp'.name = "selectAll"
                => /\ \A o \in Range(mObjectList) : selected'[o]
                   /\ \A o \in Obj \ Range(mObjectList) : selected'[o] = selected[o]
           /\ lastOp'.name = "unselectAll"
                => /\ \A o \in Range(mObjectList) : ~selected'[o]
                   /\ \A o \in Obj \ Range(mObjectList) : selected'[o] = selected[o] ]_vars

\* selectAll on a stacking order of three different objects: all selected,
\* one selectionChanged()
C12_Witness ==
    /\ lastOp.name = "selectAll"
    /\ Cardinality(Range(mObjectList)) >= 3
    /\ \A o \in Range(mObjectList) : selected[o]
    /\ Len(emitted) = 1

\* C13: when no object or exactly one object is selected, each of the six
\* align methods is a no-op: no extent, the stacking order, the selection
\* and the modified flag are unchanged and no notification is emitted.
C13_AlignNoOpBelowTwo ==
    [][ (lastOp'.name \in AlignOps /\ Cardinality(SelectedSet) <= 1)
        => /\ extent' = extent
           /\ mObjectList' = mObjectList
           /\ selected' = selected
           /\ mModified' = mModified
           /\ emitted' = <<>> ]_vars

\* C14: deleteObject(obj) with obj not in the stacking order is a no-op: the
\* stacking order, every selected flag and the modified flag are unchanged
\* and no notification is emitted.
C14_DeleteAbsentIsNoOp ==
    [][ (lastOp'.name = "deleteObject" /\ lastOp'.obj \notin Range(mObjectList))
        => /\ mObjectList' = mObjectList
           /\ selected' = selected
           /\ mModified' = mModified
           /\ emitted' = <<>> ]_vars

\* the object method, and its argument, behind each rotate/flip method
TransformOps == {"rotateSelection", "rotateSelectionLeft", "rotateSelectionRight",
                 "flipSelectionHoriz", "flipSelectionVert"}

TransformCall(op, o) ==
    CASE op.name = "rotateSelection"      -> Call("rotate", o, op.args[1])
      [] op.name = "rotateSelectionLeft"  -> Call("rotate", o, -90)
      [] op.name = "rotateSelectionRight" -> Call("rotate", o, 90)
      [] op.name = "flipSelectionHoriz"   -> Call("flipHoriz", o, 0)
      [] op.name = "flipSelectionVert"    -> Call("flipVert", o, 0)

\* C15: rotateSelection(theta), rotateSelectionLeft (-90),
\* rotateSelectionRight (+90), flipSelectionHoriz and flipSelectionVert
\* transform exactly the selected objects: each selected object receives the
\* transformation once, no unselected object receives any, no extent is
\* moved, and with nothing selected no object is touched.
C15_TransformExactlySelected ==
    [][ lastOp'.name \in TransformOps
        => /\ \A o \in SelectedSet :
                  Cardinality({ i \in 1..Len(calls') : calls'[i].obj = o }) = 1
           /\ \A i \in 1..Len(calls') :
                  /\ calls'[i].obj \in SelectedSet
                  /\ calls'[i] = TransformCall(lastOp', calls'[i].obj)
           /\ extent' = extent
           /\ mObjectList' = mObjectList
           /\ selected' = selected ]_vars

\* C16: after centerSelectionHoriz (centerSelectionVert) the extent of every
\* selected object has its center x (y) at half the page width (height),
\* whatever else is selected; its other coordinates and its size, and the
\* extent of every object that is not selected, are unchanged.
C16_CenterOnPage ==
    [][ /\ lastOp'.name = "centerSelectionHoriz"
            => \A o \in Obj :
                   IF o \in SelectedSet
                   THEN /\ CenterX2(extent'[o]) = PageW
                        /\ extent'[o].x2 - extent'[o].x1 = extent[o].x2 - extent[o].x1
                        /\ extent'[o].y1 = extent[o].y1
                        /\ extent'[o].y2 = extent[o].y2
                   ELSE extent'[o] = extent[o]
        /\ lastOp'.name = "centerSelectionVert"
            => \A o \in Obj :
                   IF o \in SelectedSet
                   THEN /\ CenterY2(extent'[o]) = PageH
                        /\ extent'[o].y2 - extent'[o].y1 = extent[o].y2 - extent[o].y1
                        /\ extent'[o].x1 = extent[o].x1
                        /\ extent'[o].x2 = extent[o].x2
                   ELSE extent'[o] = extent[o] ]_vars

\* centerSelectionHoriz centered two selected objects of different widths
\* and left an unselected object off the center
C16_Witness ==
    /\ lastOp.name = "centerSelectionHoriz"
    /\ \E o, p \in SelectedSet :
           /\ extent[o].x2 - extent[o].x1 # extent[p].x2 - extent[p].x1
           /\ CenterX2(extent[o]) = PageW
           /\ CenterX2(extent[p]) = PageW
    /\ \E q \in UnselectedSet : CenterX2(extent[q]) # PageW

\* position of the first occurrence of key k in a list of keys
FirstIndex(keys, k) == SetMin({ i \in 1..Len(keys) : keys[i] = k })

\* the keys of a source are the keys supplied, each once, in their order
KeysAsSupplied(keys, suppliedKeys) ==
    /\ NoDuplicates(keys)
    /\ Range(keys) = Range(suppliedKeys)
    /\ \A i, j \in 1..Len(keys) :
           i < j => FirstIndex(suppliedKeys, keys[i]) < FirstIndex(suppliedKeys, keys[j])

\* C17: the merge source exposes its field keys as an ordered list without
\* duplicates, in the order supplied; every record exposes exactly those
\* keys; changing one record's selected-for-merge flag changes nothing else;
\* and changing the active source replaces the key list and the record
\* sequence: no key and no record of the old source remains.
C17_MergeSourceContract ==
    [][ /\ NoDuplicates(merge'.keys)
        /\ \A i \in 1..Len(merge'.records) :
               DOMAIN merge'.records[i].values = Range(merge'.keys)
        /\ lastOp'.name = "setMerge"
               => /\ KeysAsSupplied(merge'.keys, lastOp'.args[2])
                  /\ merge'.location = lastOp'.args[1]
                  /\ Len(merge'.records) = lastOp'.args[3]
                  /\ \A i \in 1..Len(merge'.records) : \A k \in Range(merge'.keys) :
                         merge'.records[i].values[k] = <<lastOp'.args[1], i>>
        /\ lastOp'.name = "setRecordSelected"
               => /\ merge'.keys = merge.keys
                  /\ merge'.location = merge.location
                  /\ Len(merge'.records) = Len(merge.records)
                  /\ \A j \in 1..Len(merge.records) :
                         /\ merge'.records[j].values = merge.records[j].values
                         /\ merge'.records[j].selected =
                                IF j = lastOp'.args[1] THEN lastOp'.args[2]
                                ELSE merge.records[j].selected ]_vars

\* a source with the keys id, name, email and two records, one of them
\* selected for merge and the other not
C17_Witness ==
    /\ lastOp.name = "setRecordSelected"
    /\ merge.keys = <<"id", "name", "email">>
    /\ Len(merge.records) = 2
    /\ merge.records[1].selected # merge.records[2].selected
    /\ \A i \in 1..2 : DOMAIN merge.records[i].values = {"id", "name", "email"}

SetMax(S) == CHOOSE v \in S : \A w \in S : v >= w

\* C18: alignSelectionRight with two or more objects selected lines up the
\* right edges: afterwards every selected object's extent x2 is the maximum
\* x2 of the selection before the call; likewise alignSelectionBottom with
\* y2.  (Stated for the calls in which getSelection handed over the
\* selected objects, in stacking order, and for selected extents within
\* 7200pt of the origin.)
C18_AlignRightBottomEdges ==
    [][ ( /\ Len(Selection) >= 2
          /\ selectedList' = Selection
          /\ \A p \in SelectedSet : /\ Abs(extent[p].x1) < LargeValue
                                    /\ Abs(extent[p].y1) < LargeValue )
        => /\ lastOp'.name = "alignSelectionRight"
                => \A o \in SelectedSet :
                       extent'[o].x2 = SetMax({ extent[p].x2 : p \in SelectedSet })
           /\ lastOp'.name = "alignSelectionBottom"
                => \A o \in SelectedSet :
                       extent'[o].y2 = SetMax({ extent[p].y2 : p \in SelectedSet }) ]_vars

\* C19: alignSelectionRight, alignSelectionTop and alignSelectionBottom with
\* two or more objects selected: afterwards every selected object's x1
\* (Right) or y1 (Top, Bottom) is the maximum x1, minimum y1, maximum y1 of
\* the selection before the call; the other coordinate and the size of the
\* selected objects and the extent of every other object are unchanged.
\* (Stated for the calls in which getSelection handed over the selected
\* objects, in stacking order.)
C19_AlignEdgeTargets ==
    [][ (Len(Selection) >= 2 /\ selectedList' = Selection)
        => /\ lastOp'.name = "alignSelectionRight"
                => \A o \in Obj :
                       IF o \in SelectedSet
                       THEN /\ extent'[o].x1 = SetMax({ extent[p].x1 : p \in SelectedSet })
                            /\ extent'[o].x2 - extent'[o].x1 = extent[o].x2 - extent[o].x1
                            /\ extent'[o].y1 = extent[o].y1 /\ extent'[o].y2 = extent[o].y2
                       ELSE extent'[o] = extent[o]
           /\ lastOp'.name = "alignSelectionTop"
                => \A o \in Obj :
                       IF o \in SelectedSet
                       THEN /\ extent'[o].y1 = SetMin({ extent[p].y1 : p \in SelectedSet })
                            /\ extent'[o].y2 - extent'[o].y1 = extent[o].y2 - extent[o].y1
                            /\ extent'[o].x1 = extent[o].x1 /\ extent'[o].x2 = extent[o].x2
                       ELSE extent'[o] = extent[o]
           /\ lastOp'.name = "alignSelectionBottom"
                => \A o \in Obj :
                       IF o \in SelectedSet
                       THEN /\ extent'[o].y1 = SetMax({ extent[p].y1 : p \in SelectedSet })
                            /\ extent'[o].y2 - extent'[o].y1 = extent[o].y2 - extent[o].y1
                            /\ extent'[o].x1 = extent[o].x1 /\ extent'[o].x2 = extent[o].x2
                       ELSE extent'[o] = extent[o] ]_vars

Shifted(r, dx, dy) == Region(r.x1 + dx, r.y1 + dy, r.x2 + dx, r.y2 + dy)

\* C20: after moveSelection(dx, dy) the extent of every object of the
\* stacking order that was selected is its extent before the call shifted
\* by (dx, dy), every other extent is as before, and the stacking order and
\* every selected flag are unchanged.
C20_MoveSelectionShifts ==
    [][ lastOp'.name = "moveSelection"
        => /\ \A o \in Obj :
                  extent'[o] = IF o \in SelectedSet
                               THEN Shifted(extent[o], lastOp'.args[1], lastOp'.args[2])
                               ELSE extent[o]
           /\ mObjectList' = mObjectList
           /\ selected' = selected ]_vars

\* the objectDeleted notifications among the signals emitted, for object o
DeletedSignals(em, o) == { i \in 1..Len(em) : em[i].sig = "objectDeleted" /\ em[i].obj = o }

\* C21: after deleteSelection no object that was selected before the call
\* remains in the stacking order, no remaining object is selected, the
\* unselected objects remain in their previous relative order, and one
\* objectDeleted notification was emitted per deleted object.
C21_DeleteSelectionRemovesSelected ==
    [][ lastOp'.name = "deleteSelection"
        => /\ mObjectList' = Restrict(mObjectList, UnselectedSet)
           /\ \A o \in Range(mObjectList') : ~selected'[o]
           /\ \A o \in Obj :
                  Cardinality(DeletedSignals(emitted', o)) = IF o \in SelectedSet THEN 1 ELSE 0 ]_vars

\* C22: addObject(obj) places obj at the last position of the stacking
\* order, leaves the order and the selected flags of the previous members
\* (and every extent) unchanged, sets the modified flag, and emits
\* objectAdded(obj) followed by changed(), and nothing else.
C22_AddObjectAppends ==
    [][ lastOp'.name = "addObject"
        => /\ mObjectList' = Append(mObjectList, lastOp'.obj)
           /\ selected' = selected
           /\ extent' = extent
           /\ mModified'
           /\ Len(emitted') = 2
           /\ emitted'[1].sig = "objectAdded" /\ emitted'[1].obj = lastOp'.obj
           /\ emitted'[2].sig = "changed" ]_vars

\* an object was added on top of two members, one of them selected
C22_Witness ==
    /\ lastOp.name = "addObject"
    /\ Len(mObjectList) = 3
    /\ mObjectList[3] = lastOp.obj
    /\ lastOp.obj \notin {mObjectList[1], mObjectList[2]}
    /\ selected[mObjectList[1]] /\ ~selected[mObjectList[2]]
    /\ Len(emitted) = 2

\* C23: each setSelection<Property> method applies the given value, through
\* the object's set<Property>, to every selected object of the stacking
\* order, whether or not the object supports the property, and to no other
\* object.
C23_SettersApplyToSelected ==
    [][ \A property \in Properties :
            lastOp'.name = "setSelection" \o property
            => /\ { calls'[i].obj : i \in 1..Len(calls') } = SelectedSet
               /\ \A i \in 1..Len(calls') :
                      calls'[i] = Call("set" \o property, calls'[i].obj, lastOp'.args[1])
               /\ extent' = extent
               /\ selected' = selected
               /\ mObjectList' = mObjectList ]_vars

\* setSelectionFontSize reached a selected object that does not support
\* text, next to a selected one that does, and skipped an unselected member
C23_Witness ==
    /\ lastOp.name = "setSelectionFontSize"
    /\ \E i, j \in 1..Len(calls) :
           /\ ~canText(calls[i].obj) /\ selected[calls[i].obj]
           /\ canText(calls[j].obj)
    /\ UnselectedSet # {}

\* the four register operations of Db
RegisterOps == {"registerPaper", "registerCategory", "registerVendor", "registerTemplate"}

\* the entries of a registry list carry pairwise different keys
DistinctKeys(list, Key(_)) ==
    \A i, j \in 1..Len(list) : Key(list[i]) = Key(list[j]) => i = j

\* list and its parallel lists of ids/names describe the same entries
Parallel(list, keys, Key(_)) ==
    /\ Len(keys) = Len(list)
    /\ \A i \in 1..Len(list) : keys[i] = Key(list[i])

RegistryConsistent(d) ==
    /\ DistinctKeys(d.mPapers, LAMBDA paper : paper.id)
    /\ DistinctKeys(d.mCategories, LAMBDA category : category.id)
    /\ DistinctKeys(d.mVendors, LAMBDA vendor : vendor.name)
    /\ DistinctKeys(d.mTemplates, LAMBDA tmplate : <<tmplate.brand, tmplate.part>>)
    /\ Parallel(d.mPapers, d.mPaperIds, LAMBDA paper : paper.id)
    /\ Parallel(d.mPapers, d.mPaperNames, LAMBDA paper : paper.name)
    /\ Parallel(d.mCategories, d.mCategoryIds, LAMBDA category : category.id)
    /\ Parallel(d.mCategories, d.mCategoryNames, LAMBDA category : category.name)
    /\ Parallel(d.mVendors, d.mVendorNames, LAMBDA vendor : vendor.name)

\* the key of the entry handed to the register call op is already registered in d
KeyKnown(d, op) ==
    LET entry == op.args[1]
    IN  \/ op.name = "registerPaper" /\ \E i \in 1..Len(d.mPapers) : d.mPapers[i].id = entry.id
        \/ op.name = "registerCategory" /\ \E i \in 1..Len(d.mCategories) : d.mCategories[i].id = entry.id
        \/ op.name = "registerVendor" /\ \E i \in 1..Len(d.mVendors) : d.mVendors[i].name = entry.name
        \/ op.name = "registerTemplate"
             /\ \E i \in 1..Len(d.mTemplates) :
                    d.mTemplates[i].brand = entry.brand /\ d.mTemplates[i].part = entry.part

\* C24: after every register call of any sequence of them the registry is
\* consistent: papers and categories have pairwise different ids, vendors
\* pairwise different names, templates pairwise different (brand, part)
\* pairs; the id and name lists are as long as their entry list and entry i
\* of each describes the same entry; and a register call whose key is
\* already known leaves every registry list unchanged.
C24_RegistryConsistent ==
    [][ lastOp'.name \in RegisterOps
        => /\ RegistryConsistent(db')
           /\ KeyKnown(db, lastOp') => db' = db ]_vars

\* a second paper with a registered id but another name was handed in and
\* turned away, next to another registered paper and a registered vendor
C24_Witness ==
    /\ lastOp.name = "registerPaper"
    /\ Len(db.mPapers) = 2
    /\ Len(db.mVendors) = 1
    /\ lastOp.args[1] \notin Range(db.mPapers)
    /\ lastOp.args[1].id \in Range(db.mPaperIds)

\* the lookups of Db
LookupOps ==
    {"lookupPaperFromName", "lookupPaperFromId", "lookupCategoryFromName", "lookupCategoryFromId",
     "lookupVendorFromName", "lookupTemplateFromName", "lookupTemplateFromBrandPart"}

\* the registry list the lookup op searches
SearchedList(d, op) ==
    CASE op.name \in {"lookupPaperFromName", "lookupPaperFromId"} -> d.mPapers
      [] op.name \in {"lookupCategoryFromName", "lookupCategoryFromId"} -> d.mCategories
      [] op.name = "lookupVendorFromName" -> d.mVendors
      [] OTHER -> d.mTemplates

\* the identifier handed to the lookup op is empty
EmptyIdentifier(op) == \E i \in 1..Len(op.args) : op.args[i] = ""

\* the entry matches the identifier handed to the lookup op
Matches(entry, op) ==
    CASE op.name \in {"lookupPaperFromName", "lookupCategoryFromName", "lookupVendorFromName"}
             -> entry.name = op.args[1]
      [] op.name \in {"lookupPaperFromId", "lookupCategoryFromId"} -> entry.id = op.args[1]
      [] op.name = "lookupTemplateFromName" -> entry.brand \o " " \o entry.part = op.args[1]
      [] OTHER -> entry.brand = op.args[1] /\ entry.part = op.args[2]

\* C25: a lookup never fails, whatever the identifier and the registry, the
\* empty registry included: it returns, and what it returns is the first
\* registered entry for an empty identifier, the first matching entry in
\* registration order for a non-empty identifier that matches one, and NULL
\* for a non-empty identifier that matches none.
C25_LookupsNeverFail ==
    lastOp.name \in LookupOps
    => LET list == SearchedList(db, lastOp)
           hits == { i \in 1..Len(list) : Matches(list[i], lastOp) }
       IN  /\ found.status = "returned"
           /\ EmptyIdentifier(lastOp) => found.ptr = <<list[1]>>
           /\ ~EmptyIdentifier(lastOp) /\ hits # {} => found.ptr = <<list[SetMin(hits)]>>
           /\ ~EmptyIdentifier(lastOp) /\ hits = {} => found.ptr = <<>>

\* C26: selectRegion is additive. Every object selected before the call is
\* selected after it, inside the region or not, and the call leaves the
\* stacking order and the objects' positions as they were.
C26_SelectRegionAdditive ==
    [][ lastOp'.name = "selectRegion"
        => /\ \A o \in Obj : selected[o] => selected'[o]
           /\ mObjectList' = mObjectList
           /\ extent' = extent ]_vars

\* a region holding object 3 alone was selected on a list holding object 1
\* too, which lies outside it and is selected
C26_Witness ==
    /\ lastOp.name = "selectRegion"
    /\ lastOp.args = <<30, 30, 110, 70>>
    /\ {1, 3} \subseteq Range(mObjectList)
    /\ ~InRegion(extent[1], Region(30, 30, 110, 70))
    /\ InRegion(extent[3], Region(30, 30, 110, 70))
    /\ selected[1] /\ selected[3]

\* C27: the modified flag is true in every reachable state: it is true in
\* the model as constructed, and no operation, the selection-only ones and
\* the alignments that return early included, sets it to false.
C27_AlwaysModified == mModified = TRUE

\* an alignment returned early on an empty selection, or a selection-only
\* operation ran on a non-empty list, and the flag is true
C27_Witness ==
    /\ mModified
    /\ \/ lastOp.name \in AlignOps /\ emitted = <<>> /\ mObjectList # <<>>
       \/ lastOp.name = "unselectAll" /\ mObjectList # <<>>

====
